---- MODULE Spec2Model ----
(***************************************************************************)
(* Model of the project / named-graph lifecycle service of the LBDserver   *)
(* backend (src/unnamed/part_000).  One HTTP request is served at a time   *)
(* in Spec; every call to the graph store or the document store is one     *)
(* step, and each such call may succeed or raise.                          *)
(***************************************************************************)
EXTENDS Integers, Sequences, FiniteSets, TLC

\* ------------------------------------------------------------------ bounds
MaxProjects == 2   \* project ids v4() hands out
MaxGraphs == 1     \* named-graph ids v4() hands out
MaxFiles == 1      \* file ids the document store hands out
MaxRequests == 3   \* requests served in a behaviour
MaxChunks == 3     \* pieces a query text is put together from

ProjectIds == 1..MaxProjects

\* ------------------------------------------------------- resource naming
\* A URL is kept by its parts: domain, project id, path kind, local id and
\* whether the ".meta" suffix was appended.
HardCodedDomain == "https://lbdserver.org"
Domains == {HardCodedDomain, "http://localhost:5000"}

Url(d, p, path, n, m) == [dom |-> d, proj |-> p, path |-> path, n |-> n, meta |-> m]

\* the JavaScript value undefined, where a URL is expected
Undefined == Url("undefined", 0, "undefined", 0, FALSE)

RepoUrl(d, id) == Url(d, id, "root", 0, FALSE)
MetaTitle(d, id) == Url(d, id, "root", 0, TRUE)
AclUrl(d, id) == Url(d, id, "acl", 0, FALSE)
GraphContext(d, id, g) == Url(d, id, "graphs", g, FALSE)
FileUrl(d, id, f) == Url(d, id, "files", f, FALSE)
\* uri + ".meta"
MetaOf(u) == [u EXCEPT !.meta = TRUE]
\* a context URL chosen by the caller for an uploaded ACL file
CustomAclName == Url("custom", 0, "custom", 1, FALSE)
\* the ACL a request of project p without ACL choice refers to
DefaultAcl(p) == Url(HardCodedDomain, p, "acl", 0, FALSE)

\* ------------------------------------------------------------------ state
VARIABLES
  domain,        \* process.env.DOMAIN_URL
  repos,         \* graph store: ids of the repositories
  graphs,        \* graph store: named graphs [proj, ctx, kind, acl]
  projectDocs,   \* document store: ids of the project records
  files,         \* document store: files [proj, n]
  persisted,     \* document store: the user's persisted project list
  nextId,        \* next project id of v4()
  nextGraph,     \* next graph id of v4()
  nextFile,      \* next file id of the document store
  op,            \* the operation being served
  served,        \* the number of requests that have arrived
  pc,            \* its position
  req,           \* the request: user, params, body, files
  user,          \* req.user.projects, the loaded copy of the user
  writeCommands, \* the saga record of createProject / deleteProject
  status,        \* the outcome of each step of the running operation
  compensated,   \* the compensations run in this request
  undoFailed,    \* those of them that failed
  touched,       \* a store was called in this request
  result,        \* "none", "success" or "error"
  err            \* the error raised or sent

stores == <<domain, repos, graphs, projectDocs, files, persisted>>
counters == <<nextId, nextGraph, nextFile>>
vars == <<domain, repos, graphs, projectDocs, files, persisted, nextId,
          nextGraph, nextFile, op, served, pc, req, user, writeCommands, status,
          compensated, undoFailed, touched, result, err>>

\* ---------------------------------------------------------------- helpers
Range(s) == {s[i] : i \in 1..Len(s)}

\* Array.prototype.filter(project => project !== id)
RECURSIVE Without(_, _)
Without(s, id) ==
  IF s = <<>> THEN <<>>
  ELSE IF Head(s) = id THEN Without(Tail(s), id)
       ELSE <<Head(s)>> \o Without(Tail(s), id)

Commands == {"createProjectRepository", "createProjectDoc", "saveProjectToUser",
             "deleteProjectDoc", "deleteProjectFromUser"}
Steps == Commands \cup {"deleteRepository", "metaGraph", "aclGraph"}

\* the done flag of a command is never set
Command_NeverDone(done) == [done |-> FALSE, undoArgs |-> TRUE]

\* { done: false, undoArgs: [...] }
Command(done) == [done |-> done, undoArgs |-> TRUE]
\* the user document that owner.save() resolves to: it has neither a done
\* field (undefined is falsy) nor undoArgs
UserDocument == [done |-> FALSE, undoArgs |-> FALSE]

NoCommands == [c \in Commands |-> Command(FALSE)]
NoStatus == [s \in Steps |-> "pending"]
NoError == [kind |-> "none", cause |-> "none", undo |-> "none"]
Error(kind, cause, undo) == [kind |-> kind, cause |-> cause, undo |-> undo]

\* req: user present, params.projectName (or the new id), body.acl, files.acl,
\* files.aclName, body.aclName, params.graphId / params.fileId, method and
\* query.query; url and aclRef are the handler's locals
\* (context / documentUrl and acl); before is the persisted list on arrival;
\* hadResource and hadMeta tell whether the resource the request names and
\* its meta-graph were in the stores on arrival; after is "deleteProject"
\* when the request before this one was a deleteProject of the same id that
\* returned success; snapshot is what findProjectData returns; open is
\* body.open; meta tells whether req.originalUrl ends in ".meta";
\* onlyPermissions is query.onlyPermissions; responses are the responses the
\* handler has issued on res, in their order
NoSnapshot == [metadata |-> FALSE, graphs |-> {}, documents |-> {}]
NoRequest == [userPresent |-> TRUE, id |-> 0, acl |-> Undefined,
              filesAcl |-> FALSE, filesAclName |-> FALSE,
              aclName |-> Undefined, n |-> 0, url |-> Undefined,
              aclRef |-> Undefined, before |-> <<>>,
              method |-> "GET", query |-> <<>>,
              hadResource |-> FALSE, hadMeta |-> FALSE,
              after |-> "none", snapshot |-> NoSnapshot, open |-> FALSE,
              meta |-> FALSE, onlyPermissions |-> FALSE, responses |-> <<>>]

\* graph store: the named graphs of a repository go with it
GraphsOf(p) == {g \in graphs : g.proj = p}
\* data is the set of authorizations of an ACL graph (empty for the others)
Graph(p, ctx, kind, acl) ==
  [proj |-> p, ctx |-> ctx, kind |-> kind, acl |-> acl, data |-> {}]
AclGraph(p, ctx, data) == [Graph(p, ctx, "acl", Undefined) EXCEPT !.data = data]
\* graphStore.createNamedGraph(p, {context, data, acl}) that succeeded
PutGraph(gs, p, ctx, kind, acl) ==
  {g \in gs : ~(g.proj = p /\ g.ctx = ctx)} \cup {Graph(p, ctx, kind, acl)}
\* graphStore.getNamedGraph(ctx, p): the content is non-empty
HasGraph(p, ctx) == \E g \in graphs : g.proj = p /\ g.ctx = ctx

\* ------------------------------------------------------------------- Init
Init ==
  /\ domain \in Domains
  /\ repos = {}
  /\ graphs = {}
  /\ projectDocs = {}
  /\ files = {}
  /\ persisted = <<>>
  /\ nextId = 1
  /\ nextGraph = 1
  /\ nextFile = 1
  /\ op = "none"
  /\ served = 0
  /\ pc = "idle"
  /\ req = NoRequest
  /\ user = <<>>
  /\ writeCommands = NoCommands
  /\ status = NoStatus
  /\ compensated = {}
  /\ undoFailed = {}
  /\ touched = FALSE
  /\ result = "none"
  /\ err = NoError

\* a request arrives: the authentication layer has loaded req.user (or not)
Arrive(o, first, r) ==
  /\ pc \in {"idle", "done"}
  /\ served < MaxRequests
  /\ served' = served + 1
  /\ op' = o
  /\ pc' = first
  /\ req' = [r EXCEPT !.before = persisted]
  /\ user' = persisted
  /\ writeCommands' = NoCommands
  /\ status' = NoStatus
  /\ compensated' = {}
  /\ undoFailed' = {}
  /\ touched' = FALSE
  /\ result' = "none"
  /\ err' = NoError

Finish(res, e) ==
  /\ pc' = "done"
  /\ result' = res
  /\ err' = e

\* the failure of an awaited call is swallowed and the handler goes on
Step_Swallowed(ok, next, step) ==
  /\ pc' = next
  /\ UNCHANGED err

\* an awaited call inside try { ... } catch (error) { ... }: when it raises,
\* control passes to the catch block with the error of that step
Step(ok, next, step) ==
  IF ok
  THEN /\ pc' = next
       /\ UNCHANGED err
  ELSE /\ pc' = "catch"
       /\ err' = Error("pending", step, "none")

\* the new id is not added to the list
Push_Lost(list, id) == list

\* creator.projects.push(id)
Push(list, id) == Append(list, id)

\* ---------------------------------------------------------- createProject
\* const id = v4(); ...; if (!creator) throw
BeginCreateProject ==
  /\ nextId <= MaxProjects
  /\ \E present \in BOOLEAN, open \in BOOLEAN :
       Arrive("createProject", "createProject",
              [NoRequest EXCEPT !.userPresent = present, !.id = nextId,
                                !.open = open])
  /\ nextId' = nextId + 1
  /\ UNCHANGED <<stores, nextGraph, nextFile>>

\* the authentication check, then creator.projects.push(id)
CreateProjectCheck ==
  /\ pc = "createProject"
  /\ IF ~req.userPresent
     THEN /\ Finish("error", Error("Unauthenticated", "no creator", "none"))
          /\ UNCHANGED user
     ELSE /\ user' = Push(user, req.id)
          /\ pc' = "createRepository"
          /\ UNCHANGED <<result, err>>
  /\ UNCHANGED <<stores, counters, op, served, req, writeCommands, status, compensated, undoFailed,
                 touched>>

\* writeCommands.createProjectRepository.done = await graphStore.createRepository(title, id)
\* the call resolves to true, resolves to false without a repository, or raises
CreateProjectRepository ==
  /\ pc = "createRepository"
  /\ touched' = TRUE
  /\ \E outcome \in {"true", "false", "raise"} :
       /\ repos' = IF outcome = "true" THEN repos \cup {req.id} ELSE repos
       /\ writeCommands' = [writeCommands EXCEPT
            !["createProjectRepository"] = Command(outcome = "true")]
       /\ status' = [status EXCEPT !["createProjectRepository"] =
                       IF outcome = "true" THEN "done" ELSE "failed"]
       /\ Step(outcome # "raise", "createProjectDoc", "createProjectRepository")
  /\ UNCHANGED <<domain, graphs, projectDocs, files, persisted, counters, op, served,
                 req, user, compensated, undoFailed, result>>

\* writeCommands.createProjectDoc.done = await docStore.createProjectDoc(repoUrl, id)
CreateProjectDoc ==
  /\ pc = "createProjectDoc"
  /\ touched' = TRUE
  /\ \E ok \in BOOLEAN :
       /\ projectDocs' = IF ok THEN projectDocs \cup {req.id} ELSE projectDocs
       /\ writeCommands' = [writeCommands EXCEPT !["createProjectDoc"] = Command(ok)]
       /\ status' = [status EXCEPT !["createProjectDoc"] =
                       IF ok THEN "done" ELSE "failed"]
       /\ Step(ok, "saveProjectToUser", "createProjectDoc")
  /\ UNCHANGED <<domain, repos, graphs, files, persisted, counters, op, served, req,
                 user, compensated, undoFailed, result>>

\* writeCommands.saveProjectToUser.done = await creator.save()
SaveProjectToUser ==
  /\ pc = "saveProjectToUser"
  /\ touched' = TRUE
  /\ \E ok \in BOOLEAN :
       /\ persisted' = IF ok THEN user ELSE persisted
       /\ writeCommands' = [writeCommands EXCEPT !["saveProjectToUser"] = Command(ok)]
       /\ status' = [status EXCEPT !["saveProjectToUser"] =
                       IF ok THEN "done" ELSE "failed"]
       /\ Step(ok, "createMetaGraph", "saveProjectToUser")
  /\ UNCHANGED <<domain, repos, graphs, projectDocs, files, counters, op, served, req,
                 user, compensated, undoFailed, result>>

\* await graphStore.createNamedGraph(id, { context: metaTitle, ..., data: repoMetaData })
\* a named graph can only be written into a repository that exists
CreateProjectMetaGraph ==
  /\ pc = "createMetaGraph"
  /\ touched' = TRUE
  /\ \E ok \in {b \in BOOLEAN : b => req.id \in repos} :
       /\ graphs' = IF ok
                    THEN PutGraph(graphs, req.id, MetaTitle(domain, req.id),
                                  "meta", AclUrl(domain, req.id))
                    ELSE graphs
       /\ status' = [status EXCEPT !["metaGraph"] = IF ok THEN "done" ELSE "failed"]
       /\ Step(ok, "createDefaultAclGraph", "metaGraph")
  /\ UNCHANGED <<domain, repos, projectDocs, files, persisted, counters, op, served, req,
                 user, writeCommands, compensated, undoFailed, result>>

\* the authorizations of an ACL text: <#name> a acl:Authorization;
\* acl:agent / acl:agentClass ...; acl:mode ...
Authorization(name, agent, agentClass, modes) ==
  [name |-> name, agent |-> agent, agentClass |-> agentClass, modes |-> modes]
\* creator.uri of the user of the requests
UserUri == "https://lbdserver.org/user"
PublicAgentClass == "foaf:Agent"

\* the public authorization is written whatever open is
CreateDefaultAclData_AlwaysOpen(creator, open) ==
  {Authorization("owner", creator, "none", {"Read", "Write", "Control"}),
   Authorization("visitor", "none", PublicAgentClass, {"Read"})}

\* createDefaultAclGraph: the data written to the ACL graph
CreateDefaultAclData(creator, open) ==
  {Authorization("owner", creator, "none", {"Read", "Write", "Control"})}
  \cup (IF open
        THEN {Authorization("visitor", "none", PublicAgentClass, {"Read"})}
        ELSE {})

\* the write of the ACL graph is outside the try block: its failure is
\* raised as it is and nothing is undone
CreateDefaultAclGraph_Uncompensated ==
  /\ pc = "createDefaultAclGraph"
  /\ touched' = TRUE
  /\ \E ok \in {b \in BOOLEAN : b => req.id \in repos} :
       /\ graphs' = IF ok
                    THEN {g \in graphs : ~(g.proj = req.id /\ g.ctx = AclUrl(domain, req.id))}
                         \cup {AclGraph(req.id, AclUrl(domain, req.id),
                                         CreateDefaultAclData(UserUri, req.open))}
                    ELSE graphs
       /\ status' = [status EXCEPT !["aclGraph"] = IF ok THEN "done" ELSE "failed"]
       /\ IF ok
          THEN Finish("success", NoError)
          ELSE Finish("error", Error("ProjectCreationFailed", "aclGraph", "none"))
  /\ UNCHANGED <<domain, repos, projectDocs, files, persisted, counters, op, served, req,
                 user, writeCommands, compensated, undoFailed>>

\* await createDefaultAclGraph(id, creator, acl, open); return { metadata, id, ... }
CreateDefaultAclGraph ==
  /\ pc = "createDefaultAclGraph"
  /\ touched' = TRUE
  /\ \E ok \in {b \in BOOLEAN : b => req.id \in repos} :
       /\ graphs' = IF ok
                    THEN {g \in graphs : ~(g.proj = req.id /\ g.ctx = AclUrl(domain, req.id))}
                         \cup {AclGraph(req.id, AclUrl(domain, req.id),
                                         CreateDefaultAclData(UserUri, req.open))}
                    ELSE graphs
       /\ status' = [status EXCEPT !["aclGraph"] = IF ok THEN "done" ELSE "failed"]
       /\ IF ok
          THEN Finish("success", NoError)
          ELSE /\ pc' = "catch"
               /\ err' = Error("pending", "aclGraph", "none")
               /\ UNCHANGED result
  /\ UNCHANGED <<domain, repos, projectDocs, files, persisted, counters, op, served, req,
                 user, writeCommands, compensated, undoFailed>>

\* ------------------------------------------------- undoDatabaseActions
\* the commands whose compensation undoDatabaseActions runs
DoneCommands(cmds) == {c \in Commands : cmds[c].done}

\* the stores after the compensations in ran have succeeded, for project id
UndoRepos(ran, id) ==
  IF "createProjectRepository" \in ran THEN repos \ {id} ELSE repos
UndoGraphs(ran, id) ==
  IF "createProjectRepository" \in ran THEN {g \in graphs : g.proj # id} ELSE graphs
UndoProjectDocs(ran, id) ==
  IF "createProjectDoc" \in ran THEN projectDocs \ {id}
  ELSE IF "deleteProjectDoc" \in ran THEN projectDocs \cup {id}
  ELSE projectDocs
UndoPersisted(ran, id) ==
  IF "saveProjectToUser" \in ran THEN Without(user, id)
  ELSE IF "deleteProjectFromUser" \in ran THEN Append(user, id)
  ELSE persisted

\* the error of the compensations replaces the error of the step
Composite_Masked(kind, cause, failed) ==
  IF failed = {} THEN Error(kind, cause, "SUCCESS")
  ELSE Error(kind, "undoDatabaseActions", "none")

\* new Error(`Failed to create Project; ${error.message}. Undoing past operations: ${undoError}`)
Composite(kind, cause, failed) ==
  Error(kind, cause, IF failed = {} THEN "SUCCESS" ELSE "undo failed")

\* catch (error) { undoError = "SUCCESS"; try { await undoDatabaseActions(writeCommands) }
\*   catch (err) { undoError = err.message }; throw new Error(...) }
\* every compensation is attempted, each may fail
Catch ==
  /\ pc = "catch"
  /\ op \in {"createProject", "deleteProject"}
  /\ compensated' = DoneCommands(writeCommands)
  /\ \E failed \in SUBSET DoneCommands(writeCommands) :
       LET ran == DoneCommands(writeCommands) \ failed
       IN /\ undoFailed' = failed
          /\ repos' = UndoRepos(ran, req.id)
          /\ graphs' = UndoGraphs(ran, req.id)
          /\ projectDocs' = UndoProjectDocs(ran, req.id)
          /\ persisted' = UndoPersisted(ran, req.id)
          /\ Finish("error",
                    Composite(IF op = "createProject" THEN "ProjectCreationFailed"
                              ELSE "ProjectDeletionFailed",
                              err.cause, failed))
  /\ touched' = (touched \/ DoneCommands(writeCommands) # {})
  /\ UNCHANGED <<domain, files, counters, op, served, req, user, writeCommands, status>>

\* ---------------------------------------------------------- deleteProject
BeginDeleteProject ==
  /\ \E present \in BOOLEAN, id \in ProjectIds :
       Arrive("deleteProject", "deleteProject",
              [NoRequest EXCEPT !.userPresent = present, !.id = id,
                                !.hadResource = (id \in repos)])
  /\ UNCHANGED <<stores, counters>>

\* the repository is deleted first
DeleteProjectFilter_RepositoryFirst ==
  /\ pc = "deleteProject"
  /\ IF ~req.userPresent
     THEN /\ pc' = "catch"
          /\ err' = Error("pending", "TypeError", "none")
          /\ UNCHANGED user
     ELSE /\ user' = Without(user, req.id)
          /\ pc' = "deleteRepository"
          /\ UNCHANGED err
  /\ UNCHANGED <<stores, counters, op, served, req, writeCommands, status,
                 compensated, undoFailed, touched, result>>

\* owner.projects = owner.projects.filter(...); without owner this raises a
\* TypeError inside the try block
DeleteProjectFilter ==
  /\ pc = "deleteProject"
  /\ IF ~req.userPresent
     THEN /\ pc' = "catch"
          /\ err' = Error("pending", "TypeError", "none")
          /\ UNCHANGED user
     ELSE /\ user' = Without(user, req.id)
          /\ pc' = "ownerSave"
          /\ UNCHANGED err
  /\ UNCHANGED <<stores, counters, op, served, req, writeCommands, status, compensated, undoFailed,
                 touched, result>>

\* writeCommands.deleteProjectFromUser = await owner.save()
\* the whole command record is replaced by the saved user document
DeleteProjectFromUser ==
  /\ pc = "ownerSave"
  /\ touched' = TRUE
  /\ \E ok \in BOOLEAN :
       /\ persisted' = IF ok THEN user ELSE persisted
       /\ writeCommands' = IF ok
                           THEN [writeCommands EXCEPT !["deleteProjectFromUser"] = UserDocument]
                           ELSE writeCommands
       /\ status' = [status EXCEPT !["deleteProjectFromUser"] =
                       IF ok THEN "done" ELSE "failed"]
       /\ Step(ok, "deleteProjectDoc", "deleteProjectFromUser")
  /\ UNCHANGED <<domain, repos, graphs, projectDocs, files, counters, op, served, req,
                 user, compensated, undoFailed, result>>

\* writeCommands.deleteProjectDoc.done = await docStore.deleteProjectDoc(id)
DeleteProjectDoc ==
  /\ pc = "deleteProjectDoc"
  /\ touched' = TRUE
  /\ \E ok \in BOOLEAN :
       /\ projectDocs' = IF ok THEN projectDocs \ {req.id} ELSE projectDocs
       /\ writeCommands' = [writeCommands EXCEPT !["deleteProjectDoc"] = Command(ok)]
       /\ status' = [status EXCEPT !["deleteProjectDoc"] =
                       IF ok THEN "done" ELSE "failed"]
       /\ Step(ok, "deleteRepository", "deleteProjectDoc")
  /\ UNCHANGED <<domain, repos, graphs, files, persisted, counters, op, served, req,
                 user, compensated, undoFailed, result>>

\* deleteRepository resolves and the repository stays
DeleteRepository_Kept ==
  /\ pc = "deleteRepository"
  /\ touched' = TRUE
  /\ status' = [status EXCEPT !["deleteRepository"] = "done"]
  /\ Finish("success", NoError)
  /\ UNCHANGED <<stores, counters, op, served, req, user,
                 writeCommands, compensated, undoFailed>>

\* await graphStore.deleteRepository(id); return
DeleteRepository ==
  /\ pc = "deleteRepository"
  /\ touched' = TRUE
  /\ \E ok \in BOOLEAN :
       /\ repos' = IF ok THEN repos \ {req.id} ELSE repos
       /\ graphs' = IF ok THEN {g \in graphs : g.proj # req.id} ELSE graphs
       /\ status' = [status EXCEPT !["deleteRepository"] =
                       IF ok THEN "done" ELSE "failed"]
       /\ IF ok
          THEN Finish("success", NoError)
          ELSE /\ pc' = "catch"
               /\ err' = Error("pending", "deleteRepository", "none")
               /\ UNCHANGED result
  /\ UNCHANGED <<domain, projectDocs, files, persisted, counters, op, served, req, user,
                 writeCommands, compensated, undoFailed>>

\* ------------------------------------------- named graphs and documents
\* the ACL choices of a request: none, an existing ACL graph named in
\* body.acl, or an uploaded ACL file (files.acl) with files.aclName and
\* body.aclName each given or not
AclChoices(id) ==
  {[acl |-> a, filesAcl |-> FALSE, filesAclName |-> FALSE, aclName |-> Undefined] :
     a \in {Undefined, AclUrl(domain, id), CustomAclName}}
  \cup
  {[acl |-> Undefined, filesAcl |-> TRUE, filesAclName |-> fn, aclName |-> bn] :
     fn \in BOOLEAN, bn \in {Undefined, CustomAclName}}

WithChoice(r, c) ==
  [r EXCEPT !.acl = c.acl, !.filesAcl = c.filesAcl,
            !.filesAclName = c.filesAclName, !.aclName = c.aclName]

\* what the handlers send from their catch block
HandlerError(cause) ==
  Finish("error", Error("HandlerError", cause, "none"))

BeginCreateNamedGraph ==
  /\ nextGraph <= MaxGraphs
  /\ \E present \in BOOLEAN, id \in ProjectIds :
       \E c \in AclChoices(id) :
         Arrive("createNamedGraph", "createNamedGraph",
                WithChoice([NoRequest EXCEPT !.userPresent = present, !.id = id,
                                             !.n = nextGraph,
                                             !.url = GraphContext(domain, id, nextGraph)],
                           c))
  /\ nextGraph' = nextGraph + 1
  /\ UNCHANGED <<stores, nextId, nextFile>>

\* const allNamed = await graphStore.getAllNamedGraphs(projectName, "")
GetAllNamedGraphs ==
  /\ pc = "createNamedGraph"
  /\ touched' = TRUE
  /\ \E ok \in {b \in BOOLEAN : b => req.id \in repos} :
       IF ok
       THEN /\ pc' = "setAcl"
            /\ UNCHANGED <<result, err>>
       ELSE HandlerError("getAllNamedGraphs")
  /\ UNCHANGED <<stores, counters, op, served, req, user, writeCommands, status, compensated, undoFailed>>

\* after setAcl the handler goes on with setGraph or with setMetaGraph
AfterSetAcl == IF op = "createNamedGraph" THEN "setGraph" ELSE "setMetaGraph"

\* setAcl: neither body.acl nor files.acl: the main project acl is chosen
SetAclDefault ==
  /\ pc = "setAcl"
  /\ req.acl = Undefined /\ ~req.filesAcl
  /\ req' = [req EXCEPT !.aclRef = DefaultAcl(req.id)]
  /\ pc' = AfterSetAcl
  /\ UNCHANGED <<stores, counters, op, served, user, writeCommands, status, compensated, undoFailed,
                 touched, result, err>>

\* setAcl: an acl file is sent along; it is stored under body.aclName
SetAclCustom ==
  /\ pc = "setAcl"
  /\ req.filesAcl
  /\ IF ~req.filesAclName
     THEN /\ HandlerError("no context URL for the custom acl")
          /\ UNCHANGED <<graphs, req, touched>>
     ELSE /\ touched' = TRUE
          /\ \E ok \in {b \in BOOLEAN : b => req.id \in repos} :
               IF ok
               THEN /\ graphs' = PutGraph(graphs, req.id, req.aclName, "acl", Undefined)
                    /\ req' = [req EXCEPT !.aclRef = req.aclName]
                    /\ pc' = AfterSetAcl
                    /\ UNCHANGED <<result, err>>
               ELSE /\ HandlerError("createNamedGraph")
                    /\ UNCHANGED <<graphs, req>>
  /\ UNCHANGED <<domain, repos, projectDocs, files, persisted, counters, op, served, user,
                 writeCommands, status, compensated, undoFailed>>

\* setAcl: body.acl names an ACL graph; getNamedGraph resolves to its content
\* (the empty content when there is no such graph) or raises
SetAclExisting ==
  /\ pc = "setAcl"
  /\ req.acl # Undefined /\ ~req.filesAcl
  /\ touched' = TRUE
  /\ \E ok \in {b \in BOOLEAN : b => req.id \in repos} :
       IF ok
       THEN /\ req' = [req EXCEPT !.aclRef = req.acl]
            /\ pc' = AfterSetAcl
            /\ UNCHANGED <<result, err>>
       ELSE /\ Finish("error", Error("AclNotFound", "undefined", "none"))
            /\ UNCHANGED req
  /\ UNCHANGED <<stores, counters, op, served, user, writeCommands, status, compensated, undoFailed>>

\* setGraph: await graphStore.createNamedGraph(projectName, graphData, "")
SetGraph ==
  /\ pc = "setGraph"
  /\ touched' = TRUE
  /\ \E ok \in {b \in BOOLEAN : b => req.id \in repos} :
       IF ok
       THEN /\ graphs' = PutGraph(graphs, req.id, req.url, "graph", req.aclRef)
            /\ pc' = "setMetaGraph"
            /\ UNCHANGED <<result, err>>
       ELSE /\ HandlerError("createNamedGraph")
            /\ UNCHANGED graphs
  /\ UNCHANGED <<domain, repos, projectDocs, files, persisted, counters, op, served, req,
                 user, writeCommands, status, compensated, undoFailed>>

\* setMetaGraph: the graph uri + ".meta" with namedGraphMeta(uri, acl, ...),
\* then the 201 response
SetMetaGraph ==
  /\ pc = "setMetaGraph"
  /\ touched' = TRUE
  /\ \E ok \in {b \in BOOLEAN : b => req.id \in repos} :
       IF ok
       THEN /\ graphs' = PutGraph(graphs, req.id, MetaOf(req.url), "meta", req.aclRef)
            /\ Finish("success", NoError)
       ELSE /\ HandlerError("createNamedGraph")
            /\ UNCHANGED graphs
  /\ UNCHANGED <<domain, repos, projectDocs, files, persisted, counters, op, served, req,
                 user, writeCommands, status, compensated, undoFailed>>

BeginUploadDocument ==
  /\ nextFile <= MaxFiles
  /\ \E present \in BOOLEAN, id \in ProjectIds :
       \E c \in AclChoices(id) :
         Arrive("uploadDocumentToProject", "uploadDocuments",
                WithChoice([NoRequest EXCEPT !.userPresent = present, !.id = id], c))
  /\ UNCHANGED <<stores, counters>>

\* const owner = req.user.uri (a TypeError without user);
\* const documentUrl = await docStore.uploadDocuments(projectName, data, owner)
UploadDocuments ==
  /\ pc = "uploadDocuments"
  /\ IF ~req.userPresent
     THEN /\ HandlerError("TypeError")
          /\ UNCHANGED <<files, nextFile, req, touched>>
     ELSE /\ touched' = TRUE
          /\ \E ok \in BOOLEAN :
               IF ok
               THEN /\ files' = files \cup {[proj |-> req.id, n |-> nextFile]}
                    /\ nextFile' = nextFile + 1
                    /\ req' = [req EXCEPT !.n = nextFile,
                                          !.url = FileUrl(domain, req.id, nextFile)]
                    /\ pc' = "setAcl"
                    /\ UNCHANGED <<result, err>>
               ELSE /\ HandlerError("uploadDocuments")
                    /\ UNCHANGED <<files, nextFile, req>>
  /\ UNCHANGED <<domain, repos, graphs, projectDocs, persisted, nextId, nextGraph,
                 op, served, user, writeCommands, status, compensated, undoFailed>>

BeginDeleteNamedGraph ==
  /\ \E present \in BOOLEAN, id \in ProjectIds, g \in 1..MaxGraphs :
       Arrive("deleteNamedGraph", "deleteGraph",
              [NoRequest EXCEPT !.userPresent = present, !.id = id, !.n = g,
                                !.url = GraphContext(domain, id, g),
                                !.hadResource = HasGraph(id, GraphContext(domain, id, g)),
                                !.hadMeta = HasGraph(id, MetaOf(GraphContext(domain, id, g)))])
  /\ UNCHANGED <<stores, counters>>

\* await graphStore.deleteNamedGraph(namedGraph, projectName, "")
DeleteGraph ==
  /\ pc = "deleteGraph"
  /\ touched' = TRUE
  /\ \E ok \in {b \in BOOLEAN : b => req.id \in repos} :
       IF ok
       THEN /\ graphs' = {g \in graphs : ~(g.proj = req.id /\ g.ctx = req.url)}
            /\ pc' = "deleteMetaGraph"
            /\ UNCHANGED <<result, err>>
       ELSE /\ HandlerError("deleteNamedGraph")
            /\ UNCHANGED graphs
  /\ UNCHANGED <<domain, repos, projectDocs, files, persisted, counters, op, served, req,
                 user, writeCommands, status, compensated, undoFailed>>

\* the meta-graph is left in the graph store
DeleteMetaGraph_Kept ==
  /\ pc = "deleteMetaGraph"
  /\ touched' = TRUE
  /\ \E ok \in {b \in BOOLEAN : b => req.id \in repos} :
       IF ok
       THEN /\ Finish("success", NoError)
            /\ UNCHANGED graphs
       ELSE /\ HandlerError("deleteNamedGraph")
            /\ UNCHANGED graphs
  /\ UNCHANGED <<domain, repos, projectDocs, files, persisted, counters, op, served, req,
                 user, writeCommands, status, compensated, undoFailed>>

\* await graphStore.deleteNamedGraph(namedGraphMeta / docUrl + ".meta", projectName, "")
DeleteMetaGraph ==
  /\ pc = "deleteMetaGraph"
  /\ touched' = TRUE
  /\ \E ok \in {b \in BOOLEAN : b => req.id \in repos} :
       IF ok
       THEN /\ graphs' = {g \in graphs : ~(g.proj = req.id /\ g.ctx = MetaOf(req.url))}
            /\ Finish("success", NoError)
       ELSE /\ HandlerError("deleteNamedGraph")
            /\ UNCHANGED graphs
  /\ UNCHANGED <<domain, repos, projectDocs, files, persisted, counters, op, served, req,
                 user, writeCommands, status, compensated, undoFailed>>

BeginDeleteDocument ==
  /\ \E present \in BOOLEAN, id \in ProjectIds, f \in 1..MaxFiles :
       Arrive("deleteDocumentFromProject", "deleteDocument",
              [NoRequest EXCEPT !.userPresent = present, !.id = id, !.n = f,
                                !.hadResource = ([proj |-> id, n |-> f] \in files),
                                !.hadMeta = HasGraph(id, MetaOf(FileUrl(domain, id, f)))])
  /\ UNCHANGED <<stores, counters>>

\* const docUrl = await docStore.deleteDocument(req.params.fileId)
\* the file is found by its id alone; docUrl is the url it was stored under
DeleteDocument ==
  /\ pc = "deleteDocument"
  /\ touched' = TRUE
  /\ \/ \E f \in files :
          /\ f.n = req.n
          /\ files' = files \ {f}
          /\ req' = [req EXCEPT !.url = FileUrl(domain, f.proj, f.n)]
          /\ pc' = "deleteMetaGraph"
          /\ UNCHANGED <<result, err>>
     \/ /\ HandlerError("deleteDocument")
        /\ UNCHANGED <<files, req>>
  /\ UNCHANGED <<domain, repos, graphs, projectDocs, persisted, counters, op, served,
                 user, writeCommands, status, compensated, undoFailed>>

\* --------------------------------------------------------- findProjectData
\* String.prototype.endsWith("meta") and endsWith("acl") on a context: a
\* context with the ".meta" suffix ends in "meta"; of the others only the
\* project's ".acl" ends in "acl" (a v4() id has neither "l" nor "m", and
\* the caller's own context for an uploaded ACL file does not end in "acl")
EndsWithMeta(u) == u.meta
EndsWithAcl(u) == ~u.meta /\ u.path = "acl"

\* the keys of graphs: the contexts of allNamed that pass the filter
SnapshotGraphs(id) ==
  {g.ctx : g \in {h \in GraphsOf(id) : ~EndsWithAcl(h.ctx) /\ ~EndsWithMeta(h.ctx)}}
\* the keys of documents: File.find({ project: DOMAIN_URL/lbd/projectName })
SnapshotDocuments(id) == {FileUrl(domain, f.proj, f.n) : f \in {h \in files : h.proj = id}}

\* getOneProject(req) without query: findProjectData(req.params.projectName)
BeginFindProjectData ==
  /\ \E id \in ProjectIds :
       Arrive("findProjectData", "findProjectData",
              [NoRequest EXCEPT !.id = id,
                 !.after = IF /\ op = "deleteProject" /\ result = "success"
                              /\ req.id = id /\ req.hadResource
                           THEN "deleteProject" ELSE "none"])
  /\ UNCHANGED <<stores, counters>>

\* findProjectData: the project's meta-graph, all named graphs, the files and
\* the meta-graph of each file and graph are read; any of the reads may
\* raise, and every read of a repository that does not exist raises
FindProjectData ==
  /\ pc = "findProjectData"
  /\ touched' = TRUE
  /\ \E ok \in {b \in BOOLEAN : b => req.id \in repos} :
       IF ok
       THEN /\ req' = [req EXCEPT !.snapshot =
                         [metadata |-> HasGraph(req.id, MetaTitle(domain, req.id)),
                          graphs |-> SnapshotGraphs(req.id),
                          documents |-> SnapshotDocuments(req.id)]]
            /\ Finish("success", NoError)
       ELSE /\ Finish("error", Error("FindProjectDataFailed", "getNamedGraph", "none"))
            /\ UNCHANGED req
  /\ UNCHANGED <<stores, counters, op, served, user, writeCommands, status,
                 compensated, undoFailed>>

\* -------------------------------------------------- getDocumentFromProject
BeginGetDocument ==
  /\ \E id \in ProjectIds, f \in 1..MaxFiles, m \in BOOLEAN, only \in BOOLEAN :
       Arrive("getDocumentFromProject", "getDocument",
              [NoRequest EXCEPT !.id = id, !.n = f, !.meta = m,
                                !.onlyPermissions = only,
                                !.url = IF m THEN MetaOf(FileUrl(domain, id, f))
                                        ELSE FileUrl(domain, id, f)])
  /\ UNCHANGED <<stores, counters>>

\* res.status(...).send(...) / .json(...): the response is added to those
\* the handler has issued
Send(r, response) == [r EXCEPT !.responses = Append(r.responses, response)]

\* getDocumentFromProject up to the call of getFileMeta: the permissions, or
\* the document (file.main raises a TypeError when there is no such file)
GetDocument ==
  /\ pc = "getDocument"
  /\ IF req.onlyPermissions
     THEN /\ req' = Send(req, "200")
          /\ Finish("success", NoError)
          /\ UNCHANGED touched
     ELSE IF ~req.meta
     THEN /\ touched' = TRUE
          /\ \E ok \in {b \in BOOLEAN : b => [proj |-> req.id, n |-> req.n] \in files} :
               IF ok
               THEN /\ req' = Send(req, "200")
                    /\ Finish("success", NoError)
               ELSE /\ req' = Send(req, "errorHandler")
                    /\ HandlerError("getDocument")
     ELSE /\ pc' = "getFileMeta"
          /\ UNCHANGED <<req, touched, result, err>>
  /\ UNCHANGED <<stores, counters, op, served, user, writeCommands, status,
                 compensated, undoFailed>>

\* getFileMeta has caught its error and sent the error response; it returns
\* res to getDocumentFromProject, which goes on with res.status(200).json(...):
\* the call raises (the response has been sent), the catch block issues the
\* response of errorHandler, which raises again, and the handler rejects
GetFileMetaFailed(response, cause) ==
  /\ req' = Send(Send(Send(req, response), "200"), "errorHandler")
  /\ Finish("error", Error("ERR_HTTP_HEADERS_SENT", cause, "none"))

\* getFileMeta without query, and the rest of getDocumentFromProject
GetFileMeta ==
  /\ pc = "getFileMeta"
  /\ touched' = TRUE
  /\ \E ok \in {b \in BOOLEAN : b => req.id \in repos} :
       IF ~ok
       THEN GetFileMetaFailed("500", "getNamedGraph")
       ELSE IF ~HasGraph(req.id, req.url)
       THEN GetFileMetaFailed("404", "Graph not found")
       ELSE /\ req' = Send(req, "200")
            /\ Finish("success", NoError)
  /\ UNCHANGED <<stores, counters, op, served, user, writeCommands, status,
                 compensated, undoFailed>>

\* ----------------------------------------------------------- queryProject
\* A text is a sequence of characters, each a string of length one.
Select == <<"s", "e", "l", "e", "c", "t">>
Insert == <<"i", "n", "s", "e", "r", "t">>
Delete == <<"d", "e", "l", "e", "t", "e">>

\* the pieces of the queries that are tried
Chunks == {Select,
           <<"S", "e", "L", "E", "c", "T">>,
           Insert,
           <<"I", "N", "S", "E", "R", "T">>,
           <<"D", "e", "l", "e", "t", "E">>,
           <<"e", "l", "e", "t", "e">>,
           <<"=">>,
           <<" ", "?", "x">>}

RECURSIVE Texts(_)
Texts(n) ==
  IF n = 0 THEN {<<>>}
  ELSE Texts(n - 1) \cup {t \o c : t \in Texts(n - 1), c \in Chunks}
Queries == Texts(MaxChunks)

\* String.prototype.toLowerCase, on one character
LowerChar(ch) ==
  CASE ch = "S" -> "s" [] ch = "E" -> "e" [] ch = "L" -> "l" [] ch = "C" -> "c"
    [] ch = "T" -> "t" [] ch = "I" -> "i" [] ch = "N" -> "n" [] ch = "R" -> "r"
    [] ch = "D" -> "d" [] ch = "F" -> "f" [] OTHER -> ch
ToLowerCase(t) == [i \in 1..Len(t) |-> LowerChar(t[i])]

\* encodeURIComponent, on one character: letters are kept, "=", " " and "?"
\* become their percent codes
EncodeChar(ch) ==
  CASE ch = "=" -> <<"%", "3", "D">>
    [] ch = " " -> <<"%", "2", "0">>
    [] ch = "?" -> <<"%", "3", "F">>
    [] OTHER -> <<ch>>
RECURSIVE EncodeURIComponent(_)
EncodeURIComponent(t) ==
  IF t = <<>> THEN <<>>
  ELSE EncodeChar(Head(t)) \o EncodeURIComponent(Tail(t))

\* String.prototype.includes
Includes(t, sub) ==
  \E i \in 1..(Len(t) - Len(sub) + 1) : SubSeq(t, i, i + Len(sub) - 1) = sub

\* the condition of the GET branch of queryProject
IsRead(q) ==
  /\ Includes(ToLowerCase(q), Select)
  /\ ~Includes(ToLowerCase(EncodeURIComponent(q)), Insert)
  /\ ~Includes(ToLowerCase(EncodeURIComponent(q)), Delete)

\* queryProject(req): a GET request is dispatched to the graph store when its
\* query passes the condition and refused otherwise; any other method falls
\* through and resolves to undefined
QueryProject ==
  /\ pc = "queryProject"
  /\ IF req.method # "GET"
     THEN /\ Finish("success", NoError)
          /\ UNCHANGED touched
     ELSE IF IsRead(req.query)
     THEN /\ touched' = TRUE
          /\ \E ok \in {b \in BOOLEAN : b => req.id \in repos} :
               IF ok THEN Finish("success", NoError)
               ELSE Finish("error", Error("QueryFailed", "queryRepository", "none"))
     ELSE /\ Finish("error", Error("QueryFailed", "not allowed in a GET request", "none"))
          /\ UNCHANGED touched
  /\ UNCHANGED <<stores, counters, op, served, req, user, writeCommands, status,
                 compensated, undoFailed>>

\* the stores after one createProject that returned success
InitQueryStores ==
  \/ /\ repos = {}
     /\ graphs = {}
     /\ projectDocs = {}
     /\ persisted = <<>>
     /\ nextId = 1
  \/ /\ repos = {1}
     /\ \E open \in BOOLEAN :
          graphs = {Graph(1, MetaTitle(domain, 1), "meta", AclUrl(domain, 1)),
                    AclGraph(1, AclUrl(domain, 1), CreateDefaultAclData(UserUri, open))}
     /\ projectDocs = {1}
     /\ persisted = <<1>>
     /\ nextId = 2

\* a queryProject request has arrived, with any of the queries
InitQuery ==
  /\ domain \in Domains
  /\ InitQueryStores
  /\ files = {}
  /\ nextGraph = 1
  /\ nextFile = 1
  /\ op = "queryProject"
  /\ served = 1
  /\ pc = "queryProject"
  /\ \E m \in {"GET", "POST"}, q \in Queries :
       req = [NoRequest EXCEPT !.id = 1, !.method = m, !.query = q,
                               !.before = persisted]
  /\ user = persisted
  /\ writeCommands = NoCommands
  /\ status = NoStatus
  /\ compensated = {}
  /\ undoFailed = {}
  /\ touched = FALSE
  /\ result = "none"
  /\ err = NoError

NextQuery == QueryProject

SpecQuery == InitQuery /\ [][NextQuery]_vars

\* ------------------------------------------------------------------- Next
Next ==
  \/ BeginCreateProject
  \/ CreateProjectCheck
  \/ CreateProjectRepository
  \/ CreateProjectDoc
  \/ SaveProjectToUser
  \/ CreateProjectMetaGraph
  \/ CreateDefaultAclGraph
  \/ Catch
  \/ BeginDeleteProject
  \/ DeleteProjectFilter
  \/ DeleteProjectFromUser
  \/ DeleteProjectDoc
  \/ DeleteRepository
  \/ BeginCreateNamedGraph
  \/ GetAllNamedGraphs
  \/ SetAclDefault
  \/ SetAclCustom
  \/ SetAclExisting
  \/ SetGraph
  \/ SetMetaGraph
  \/ BeginUploadDocument
  \/ UploadDocuments
  \/ BeginDeleteNamedGraph
  \/ DeleteGraph
  \/ DeleteMetaGraph
  \/ BeginDeleteDocument
  \/ DeleteDocument
  \/ BeginFindProjectData
  \/ FindProjectData
  \/ BeginGetDocument
  \/ GetDocument
  \/ GetFileMeta

Spec == Init /\ [][Next]_vars

\* =================================================================== claims
Sagas == {"createProject", "deleteProject"}
CreateSteps == {"createProjectRepository", "createProjectDoc", "saveProjectToUser"}
DeleteSteps == {"deleteProjectFromUser", "deleteProjectDoc", "deleteRepository"}
Returned == pc = "done" /\ result = "success"
Failed == pc = "done" /\ result = "error"

\* C1: when createProject returns its success payload, the new id has a
\* repository in the graph store, a project record in the document store and
\* an entry in the creator's persisted project list, and the repository
\* holds exactly one ACL graph, at the project's ACL URL, and exactly one
\* meta-graph, at the project's meta URL.
C1_CreatedEverywhere ==
  (op = "createProject" /\ Returned) =>
    /\ req.id \in repos
    /\ req.id \in projectDocs
    /\ req.id \in Range(persisted)
    /\ {g.ctx : g \in {h \in GraphsOf(req.id) : h.kind = "acl"}} = {AclUrl(domain, req.id)}
    /\ {g.ctx : g \in {h \in GraphsOf(req.id) : h.kind = "meta"}} = {MetaTitle(domain, req.id)}
    /\ Cardinality(GraphsOf(req.id)) = 2

C1_Witness == op = "createProject" /\ Returned

\* the case of C2: the repository was created, the project record was not
C2_Case ==
  /\ op = "createProject"
  /\ pc = "done"
  /\ status["createProjectRepository"] = "done"
  /\ status["createProjectDoc"] = "failed"

\* C2 as stated: when the repository creation completed and the write of the
\* project record failed, then at the end of createProject the repository
\* has been deleted and the owner's persisted project list is what it was
\* before the call.
C2_RepositoryDeleted ==
  C2_Case => (req.id \notin repos /\ persisted = req.before)

\* C2 as amended: in that case createProject fails, the compensation that
\* deletes the repository has been run, the repository is gone whenever no
\* compensation failed, and the owner's persisted project list is what it
\* was before the call.
C2_RepositoryCompensated ==
  C2_Case =>
    /\ result = "error"
    /\ compensated = {"createProjectRepository"}
    /\ (undoFailed = {} => req.id \notin repos)
    /\ err.undo = (IF undoFailed = {} THEN "SUCCESS" ELSE "undo failed")
    /\ persisted = req.before
    /\ req.id \notin Range(persisted)

C2_Witness == C2_Case /\ err.undo = "SUCCESS" /\ req.id \notin repos

\* C3: when deleteProject ends with an error, a compensation has been run for
\* exactly the commands whose step is done; so when the owner's list was
\* persisted without the id and the compensations succeeded, the id is in
\* the owner's persisted list again.
C3_DeleteCompensates ==
  (op = "deleteProject" /\ Failed) =>
    /\ compensated = {c \in {"deleteProjectFromUser", "deleteProjectDoc"} :
                        status[c] = "done"}
    /\ (/\ status["deleteProjectFromUser"] = "done"
        /\ undoFailed = {}
        /\ req.id \in Range(req.before)) => req.id \in Range(persisted)

\* C4: an operation that returns its success payload has no failed step:
\* createProject returns success only when the repository creation, the
\* project record and the persist of the creator are all done (a repository
\* creation that resolved to false is not), deleteProject only when its
\* three steps are done.
C4_SuccessMeansAllDone ==
  Returned =>
    /\ \A s \in Steps : status[s] # "failed"
    /\ op = "createProject" =>
         /\ \A s \in CreateSteps : status[s] = "done"
         /\ \A s \in CreateSteps : writeCommands[s].done
    /\ op = "deleteProject" => \A s \in DeleteSteps : status[s] = "done"

C4_Witness ==
  op = "deleteProject" /\ Returned /\ req.id \in Range(req.before)

\* C5: when a step of createProject or deleteProject has failed, the
\* operation ends with one composite error that carries the cause of a step
\* that failed and the outcome of the compensations: SUCCESS exactly when no
\* compensation failed; a failed compensation does not replace the cause.
\* The cause is that of the one call that raised: the only other step that
\* can have failed is a repository creation that resolved to false.
C5_CompositeError ==
  (op \in Sagas /\ pc = "done" /\ \E s \in Steps : status[s] = "failed") =>
    /\ result = "error"
    /\ err.kind \in {"ProjectCreationFailed", "ProjectDeletionFailed"}
    /\ err.cause \in Steps
    /\ status[err.cause] = "failed"
    /\ \A s \in Steps \ {err.cause} : status[s] = "failed" =>
         (s = "createProjectRepository" /\ ~writeCommands[s].done)
    /\ err.undo = (IF undoFailed = {} THEN "SUCCESS" ELSE "undo failed")

C5_Witness ==
  op \in Sagas /\ Failed /\ undoFailed # {} /\ err.cause = "deleteRepository"

\* C6: on the GET channel, a query that contains select in any letter case
\* and neither insert nor delete is dispatched to the graph store; a query
\* that contains insert or delete in any letter case is refused with an
\* error and is not dispatched.
C6_ReadWriteGate ==
  (op = "queryProject" /\ pc = "done" /\ req.method = "GET") =>
    LET q == ToLowerCase(req.query)
    IN /\ (Includes(q, Select) /\ ~Includes(q, Insert) /\ ~Includes(q, Delete))
            => touched
       /\ (Includes(q, Insert) \/ Includes(q, Delete))
            => (result = "error" /\ ~touched)

\* C7: a request without a resolved principal fails with an Unauthenticated
\* error, and no store is called for it.
C7_Unauthenticated ==
  (op # "none" /\ ~req.userPresent) =>
    /\ ~touched
    /\ pc = "done" => (result = "error" /\ err.kind = "Unauthenticated")

\* C8: deleteProject issues deleteRepository only after the persist of the
\* owner's list without the id and the deletion of the project record are
\* both done, and once deleteRepository has succeeded no compensation is run.
C8_RepositoryLast ==
  op = "deleteProject" =>
    /\ (pc = "deleteRepository" \/ status["deleteRepository"] # "pending") =>
         /\ status["deleteProjectFromUser"] = "done"
         /\ status["deleteProjectDoc"] = "done"
    /\ status["deleteRepository"] = "done" =>
         (compensated = {} /\ Returned)

C8_Witness ==
  /\ op = "deleteProject"
  /\ pc = "done"
  /\ status["deleteRepository"] = "failed"
  /\ compensated # {}

\* the resources in the stores: named graphs and documents
ResourceGraphs == {g \in graphs : g.kind = "graph"}
HasReachableAcl(p, url) ==
  \E m \in GraphsOf(p) :
    /\ m.ctx = MetaOf(url)
    /\ m.kind = "meta"
    /\ \E a \in GraphsOf(p) : a.ctx = m.acl /\ a.kind = "acl"

\* C9: whenever createNamedGraph or uploadDocumentToProject has ended, every
\* named graph and every document in the stores has a meta-graph that refers
\* to an ACL graph of the project's repository.
C9_ReachableAcl ==
  (op \in {"createNamedGraph", "uploadDocumentToProject"} /\ pc = "done") =>
    /\ \A g \in ResourceGraphs : HasReachableAcl(g.proj, g.ctx)
    /\ \A f \in files : HasReachableAcl(f.proj, FileUrl(domain, f.proj, f.n))

\* C10: when body.acl names an ACL graph the project's repository does not
\* hold, setAcl does not accept it: createNamedGraph and
\* uploadDocumentToProject fail, with an AclNotFound error unless an earlier
\* call failed, and create no meta-graph that refers to that ACL.
C10_AclMustExist ==
  (/\ op \in {"createNamedGraph", "uploadDocumentToProject"}
   /\ ~req.filesAcl
   /\ req.acl # Undefined
   /\ ~HasGraph(req.id, req.acl)) =>
    /\ req.aclRef = Undefined
    /\ pc \notin {"setGraph", "setMetaGraph"}
    /\ pc = "done" =>
         /\ result = "error"
         /\ \/ err.kind = "AclNotFound"
            \/ err.cause \in {"getAllNamedGraphs", "uploadDocuments", "TypeError"}
    /\ ~\E m \in GraphsOf(req.id) : m.ctx = MetaOf(req.url) /\ m.acl = req.acl

\* a resource of project p at url has its companion meta-graph
HasMeta(p, url) ==
  \E m \in GraphsOf(p) : m.ctx = MetaOf(url) /\ m.kind = "meta"
\* the meta-graphs of named graphs and documents (not the project's own)
CompanionMetas == {m \in graphs : m.kind = "meta" /\ m.ctx.path \in {"graphs", "files"}}

\* C11: whenever createNamedGraph, uploadDocumentToProject, deleteNamedGraph
\* or deleteDocumentFromProject has ended, in every project that has a
\* repository a named graph or document exists if and only if its meta-graph
\* at context + ".meta" exists.
C11_Paired ==
  (/\ op \in {"createNamedGraph", "uploadDocumentToProject",
              "deleteNamedGraph", "deleteDocumentFromProject"}
   /\ pc = "done") =>
    /\ \A g \in ResourceGraphs : HasMeta(g.proj, g.ctx)
    /\ \A f \in files : f.proj \in repos => HasMeta(f.proj, FileUrl(domain, f.proj, f.n))
    /\ \A m \in CompanionMetas :
         \/ \E g \in ResourceGraphs : g.proj = m.proj /\ MetaOf(g.ctx) = m.ctx
         \/ \E f \in files : f.proj = m.proj /\ MetaOf(FileUrl(domain, f.proj, f.n)) = m.ctx

\* the request deletes, under its project, a document that was uploaded to
\* it with success: the document and its meta-graph were there on arrival
C12_Case ==
  op = "deleteDocumentFromProject" /\ req.hadResource /\ req.hadMeta

C13_DeleteIdempotent ==
  (op = "deleteNamedGraph" /\ pc = "done" /\ ~req.hadResource) =>
    /\ result = "error"
    /\ HasGraph(req.id, MetaOf(req.url)) = req.hadMeta

\* C14: when deleteProject(id) has returned success, the project has no
\* repository and no meta-graph or ACL graph of it is left in the graph
\* store; a findProjectData on the same id that follows it fails and returns
\* no component.
C14_NothingAfterDelete ==
  /\ (op = "deleteProject" /\ Returned) =>
       (req.id \notin repos /\ GraphsOf(req.id) = {})
  /\ (op = "findProjectData" /\ req.after = "deleteProject") =>
       /\ req.id \notin repos
       /\ GraphsOf(req.id) = {}
       /\ req.snapshot = NoSnapshot
       /\ pc = "done" => result = "error"

C14_Witness ==
  op = "findProjectData" /\ req.after = "deleteProject" /\ Failed

\* C15: the graphs of the snapshot that findProjectData returns are exactly
\* the named graphs of the repository that are neither a meta-graph nor an
\* ACL graph.
C15_SnapshotGraphs ==
  (op = "findProjectData" /\ Returned) =>
    req.snapshot.graphs = {g.ctx : g \in {h \in GraphsOf(req.id) : h.kind = "graph"}}

\* the default ACL graph of the project that createProject has written
DefaultAclGraphs(id) ==
  {g \in GraphsOf(id) : g.ctx = AclUrl(domain, id) /\ g.kind = "acl"}
Owners(data) ==
  {a \in data : a.agent = UserUri /\ a.modes = {"Read", "Write", "Control"}}
Publics(data) ==
  {a \in data : a.agentClass = PublicAgentClass /\ a.modes = {"Read"}}

\* C16: the default ACL graph that createProject has written holds exactly
\* one authorization of the creator, with the modes Read, Write and Control,
\* one authorization that grants Read to the public agent class exactly when
\* open is true, and no other authorization.
C16_DefaultAcl ==
  (op = "createProject" /\ status["aclGraph"] = "done") =>
    \A g \in DefaultAclGraphs(req.id) :
      /\ Cardinality(Owners(g.data)) = 1
      /\ Cardinality(Publics(g.data)) = (IF req.open THEN 1 ELSE 0)
      /\ g.data = Owners(g.data) \cup Publics(g.data)
      /\ \A a \in g.data : a.agent \in {UserUri, "none"}

C16_Witness ==
  /\ op = "createProject" /\ Returned /\ ~req.open
  /\ DefaultAclGraphs(req.id) # {}

\* C17: when createNamedGraph or uploadDocumentToProject was called without
\* ACL choice and has returned success, the meta-graph of the new resource
\* refers to the ACL URL createProject derives for the project,
\* DOMAIN_URL/lbd/id/.acl, whatever the configured domain is.
C17_DefaultAclIsProjectAcl ==
  (/\ op \in {"createNamedGraph", "uploadDocumentToProject"}
   /\ Returned
   /\ req.acl = Undefined /\ ~req.filesAcl) =>
    \E m \in GraphsOf(req.id) :
      /\ m.ctx = MetaOf(req.url)
      /\ m.acl = AclUrl(domain, req.id)

\* C18: when createNamedGraph or uploadDocumentToProject ends with an error,
\* the error carries the message of its cause, which is not undefined.
C18_CausePreserved ==
  (op \in {"createNamedGraph", "uploadDocumentToProject"} /\ Failed) =>
    err.cause # "undefined"

\* C19: when getDocumentFromProject has ended for a ".meta" URL whose graph
\* is empty or absent in the project's repository (the read of the graph
\* did not raise), it has issued exactly one response, the 404 error, and no
\* success response.
C19_OneResponse ==
  (/\ op = "getDocumentFromProject" /\ pc = "done"
   /\ req.meta /\ ~req.onlyPermissions
   /\ req.id \in repos /\ ~HasGraph(req.id, req.url)
   /\ err.cause # "getNamedGraph") =>
    req.responses = <<"404">>

\* the case of C20: the three steps of createProject are done and the write
\* of the project's meta-graph or of its default ACL graph has failed
C20_Case ==
  /\ op = "createProject"
  /\ pc = "done"
  /\ \A s \in CreateSteps : status[s] = "done"
  /\ status["metaGraph"] = "failed" \/ status["aclGraph"] = "failed"

\* C20: when the write of the meta-graph or of the default ACL graph fails
\* after the three steps of createProject are done, createProject ends with
\* an error and the compensations of all three steps have been run; when
\* none of them failed, the id has no repository, no project record and no
\* entry in the owner's persisted list.  When createProject has ended and no
\* compensation failed, a repository of the id holds the project's
\* meta-graph and its ACL graph.
C20_LateFailureCompensated ==
  /\ C20_Case =>
       /\ result = "error"
       /\ err.kind = "ProjectCreationFailed"
       /\ compensated = CreateSteps
       /\ undoFailed = {} =>
            /\ req.id \notin repos
            /\ req.id \notin projectDocs
            /\ req.id \notin Range(persisted)
            /\ GraphsOf(req.id) = {}
  /\ (op = "createProject" /\ pc = "done" /\ undoFailed = {} /\ req.id \in repos) =>
       /\ HasGraph(req.id, MetaTitle(domain, req.id))
       /\ HasGraph(req.id, AclUrl(domain, req.id))

C20_Witness == C20_Case /\ undoFailed = {} /\ status["aclGraph"] = "failed"

\* ------------------------------------------------- two requests in flight
\* SpecConcurrent: two requests of the same user are served at the same
\* time.  The stores are shared; op, pc, req, user, writeCommands, result and
\* err hold one value for each of the two requests.  user[p] is the copy of
\* the user that was loaded for request p; save() persists that copy.  The
\* requests suspend at their store calls only, so each store call is a step.
Requests == {"A", "B"}

unused == <<domain, files, nextGraph, nextFile, served, status, compensated,
            undoFailed, touched>>

InitConcurrent ==
  /\ domain \in Domains
  /\ InitQueryStores
  /\ files = {}
  /\ nextGraph = 1
  /\ nextFile = 1
  /\ served = 0
  /\ op = [p \in Requests |-> "none"]
  /\ pc = [p \in Requests |-> "idle"]
  /\ req = [p \in Requests |-> NoRequest]
  /\ user = [p \in Requests |-> <<>>]
  /\ writeCommands = [p \in Requests |-> NoCommands]
  /\ result = [p \in Requests |-> "none"]
  /\ err = [p \in Requests |-> NoError]
  /\ status = NoStatus
  /\ compensated = {}
  /\ undoFailed = {}
  /\ touched = FALSE

\* request p goes to the next position, or to its catch block with the
\* error of the call that raised
Goto(p, ok, next, step) ==
  /\ pc' = [pc EXCEPT ![p] = IF ok THEN next ELSE "catch"]
  /\ err' = IF ok THEN err ELSE [err EXCEPT ![p] = Error("pending", step, "none")]

\* request p arrives: the authentication layer loads its copy of the user
ConcurrentCreateProject ==
  \E p \in Requests, open \in BOOLEAN :
    /\ pc[p] = "idle"
    /\ nextId <= MaxProjects
    /\ nextId' = nextId + 1
    /\ op' = [op EXCEPT ![p] = "createProject"]
    /\ req' = [req EXCEPT ![p] = [NoRequest EXCEPT !.id = nextId, !.open = open,
                                                    !.before = persisted]]
    /\ user' = [user EXCEPT ![p] = Push(persisted, nextId)]
    /\ pc' = [pc EXCEPT ![p] = "createRepository"]
    /\ UNCHANGED <<repos, graphs, projectDocs, persisted, writeCommands, result, err, unused>>

ConcurrentDeleteProject ==
  \E p \in Requests, id \in Range(persisted) :
    /\ pc[p] = "idle"
    /\ op' = [op EXCEPT ![p] = "deleteProject"]
    /\ req' = [req EXCEPT ![p] = [NoRequest EXCEPT !.id = id, !.before = persisted]]
    /\ user' = [user EXCEPT ![p] = Without(persisted, id)]
    /\ pc' = [pc EXCEPT ![p] = "ownerSave"]
    /\ UNCHANGED <<repos, graphs, projectDocs, persisted, nextId, writeCommands,
                   result, err, unused>>

ConcurrentCreateRepository ==
  \E p \in Requests, outcome \in {"true", "false", "raise"} :
    /\ pc[p] = "createRepository"
    /\ repos' = IF outcome = "true" THEN repos \cup {req[p].id} ELSE repos
    /\ writeCommands' = [writeCommands EXCEPT
         ![p]["createProjectRepository"] = Command(outcome = "true")]
    /\ Goto(p, outcome # "raise", "createProjectDoc", "createProjectRepository")
    /\ UNCHANGED <<graphs, projectDocs, persisted, nextId, op, req, user, result, unused>>

ConcurrentCreateProjectDoc ==
  \E p \in Requests, ok \in BOOLEAN :
    /\ pc[p] = "createProjectDoc"
    /\ projectDocs' = IF ok THEN projectDocs \cup {req[p].id} ELSE projectDocs
    /\ writeCommands' = [writeCommands EXCEPT ![p]["createProjectDoc"] = Command(ok)]
    /\ Goto(p, ok, "saveProjectToUser", "createProjectDoc")
    /\ UNCHANGED <<repos, graphs, persisted, nextId, op, req, user, result, unused>>

\* await creator.save(): the loaded copy, with the new id, is persisted
ConcurrentSaveProjectToUser ==
  \E p \in Requests, ok \in BOOLEAN :
    /\ pc[p] = "saveProjectToUser"
    /\ persisted' = IF ok THEN user[p] ELSE persisted
    /\ writeCommands' = [writeCommands EXCEPT ![p]["saveProjectToUser"] = Command(ok)]
    /\ Goto(p, ok, "createMetaGraph", "saveProjectToUser")
    /\ UNCHANGED <<repos, graphs, projectDocs, nextId, op, req, user, result, unused>>

ConcurrentCreateMetaGraph ==
  \E p \in Requests :
    \E ok \in {b \in BOOLEAN : b => req[p].id \in repos} :
      /\ pc[p] = "createMetaGraph"
      /\ graphs' = IF ok
                   THEN PutGraph(graphs, req[p].id, MetaTitle(domain, req[p].id),
                                 "meta", AclUrl(domain, req[p].id))
                   ELSE graphs
      /\ Goto(p, ok, "createDefaultAclGraph", "metaGraph")
      /\ UNCHANGED <<repos, projectDocs, persisted, nextId, op, req, user,
                     writeCommands, result, unused>>

ConcurrentCreateDefaultAclGraph ==
  \E p \in Requests :
    \E ok \in {b \in BOOLEAN : b => req[p].id \in repos} :
      /\ pc[p] = "createDefaultAclGraph"
      /\ graphs' = IF ok
                   THEN {g \in graphs : ~(g.proj = req[p].id /\ g.ctx = AclUrl(domain, req[p].id))}
                        \cup {AclGraph(req[p].id, AclUrl(domain, req[p].id),
                                        CreateDefaultAclData(UserUri, req[p].open))}
                   ELSE graphs
      /\ Goto(p, ok, "done", "aclGraph")
      /\ result' = IF ok THEN [result EXCEPT ![p] = "success"] ELSE result
      /\ UNCHANGED <<repos, projectDocs, persisted, nextId, op, req, user,
                     writeCommands, unused>>

\* writeCommands.deleteProjectFromUser = await owner.save(): the loaded copy,
\* without the id, is persisted
ConcurrentDeleteProjectFromUser ==
  \E p \in Requests, ok \in BOOLEAN :
    /\ pc[p] = "ownerSave"
    /\ persisted' = IF ok THEN user[p] ELSE persisted
    /\ writeCommands' = IF ok
                        THEN [writeCommands EXCEPT ![p]["deleteProjectFromUser"] = UserDocument]
                        ELSE writeCommands
    /\ Goto(p, ok, "deleteProjectDoc", "deleteProjectFromUser")
    /\ UNCHANGED <<repos, graphs, projectDocs, nextId, op, req, user, result, unused>>

ConcurrentDeleteProjectDoc ==
  \E p \in Requests, ok \in BOOLEAN :
    /\ pc[p] = "deleteProjectDoc"
    /\ projectDocs' = IF ok THEN projectDocs \ {req[p].id} ELSE projectDocs
    /\ writeCommands' = [writeCommands EXCEPT ![p]["deleteProjectDoc"] = Command(ok)]
    /\ Goto(p, ok, "deleteRepository", "deleteProjectDoc")
    /\ UNCHANGED <<repos, graphs, persisted, nextId, op, req, user, result, unused>>

ConcurrentDeleteRepository ==
  \E p \in Requests, ok \in BOOLEAN :
    /\ pc[p] = "deleteRepository"
    /\ repos' = IF ok THEN repos \ {req[p].id} ELSE repos
    /\ graphs' = IF ok THEN {g \in graphs : g.proj # req[p].id} ELSE graphs
    /\ Goto(p, ok, "done", "deleteRepository")
    /\ result' = IF ok THEN [result EXCEPT ![p] = "success"] ELSE result
    /\ UNCHANGED <<projectDocs, persisted, nextId, op, req, user, writeCommands, unused>>

\* the catch block of request p: undoDatabaseActions(writeCommands), each
\* compensation may fail; the compensations of the persist steps persist the
\* copy of the request with the id taken out or put back
ConcurrentCatch ==
  \E p \in Requests :
    \E failed \in SUBSET DoneCommands(writeCommands[p]) :
      LET ran == DoneCommands(writeCommands[p]) \ failed
          id == req[p].id
      IN /\ pc[p] = "catch"
         /\ repos' = IF "createProjectRepository" \in ran THEN repos \ {id} ELSE repos
         /\ graphs' = IF "createProjectRepository" \in ran
                      THEN {g \in graphs : g.proj # id} ELSE graphs
         /\ projectDocs' = IF "createProjectDoc" \in ran THEN projectDocs \ {id}
                           ELSE IF "deleteProjectDoc" \in ran THEN projectDocs \cup {id}
                           ELSE projectDocs
         /\ persisted' = IF "saveProjectToUser" \in ran THEN Without(user[p], id)
                         ELSE persisted
         /\ pc' = [pc EXCEPT ![p] = "done"]
         /\ result' = [result EXCEPT ![p] = "error"]
         /\ err' = [err EXCEPT ![p] =
                      Composite(IF op[p] = "createProject" THEN "ProjectCreationFailed"
                                ELSE "ProjectDeletionFailed",
                                err[p].cause, failed)]
         /\ UNCHANGED <<nextId, op, req, user, writeCommands, unused>>

NextConcurrent ==
  \/ ConcurrentCreateProject
  \/ ConcurrentDeleteProject
  \/ ConcurrentCreateRepository
  \/ ConcurrentCreateProjectDoc
  \/ ConcurrentSaveProjectToUser
  \/ ConcurrentCreateMetaGraph
  \/ ConcurrentCreateDefaultAclGraph
  \/ ConcurrentDeleteProjectFromUser
  \/ ConcurrentDeleteProjectDoc
  \/ ConcurrentDeleteRepository
  \/ ConcurrentCatch

SpecConcurrent == InitConcurrent /\ [][NextConcurrent]_vars

\* C21: when two requests of the same user that were in flight together, two
\* createProject or a createProject and a deleteProject of another project,
\* have both returned success, the persisted project list holds the id of
\* each project that was created and not the id of the one that was deleted.
C21_NoLostUpdate ==
  (/\ \A p \in Requests : pc[p] = "done" /\ result[p] = "success"
   /\ \E p \in Requests : op[p] = "createProject"
   /\ req["A"].id # req["B"].id) =>
    \A p \in Requests :
      /\ op[p] = "createProject" => req[p].id \in Range(persisted)
      /\ op[p] = "deleteProject" => req[p].id \notin Range(persisted)

====
